---------------------------- MODULE Spec2Model ----------------------------
(***************************************************************************)
(* A model of dlcommon: the AtomicFile commit protocol (src/file.rs), the  *)
(* per-item download (src/http.rs, FileDownload::download) and the bounded *)
(* orchestrator (src/operation.rs, Operation::run and create_task).         *)
(*                                                                         *)
(* A file name is a sequence of characters, a path a sequence of file      *)
(* names.  The file system maps a path to a directory entry (a directory,  *)
(* or a regular file naming an inode); an inode's bytes live in data, so   *)
(* that an open handle keeps writing to its inode after a rename.          *)
(***************************************************************************)
EXTENDS Integers, Sequences, FiniteSets, TLC

\* ------------------------------------------------------------------ bounds
\* Number of items handed to Operation::run in the orchestrator runs.
MaxItems == 3
\* Largest capacity of the concurrency limiter in the orchestrator runs.
MaxPermits == 2
\* Largest Content-Length value and largest size of a pre-existing file.
MaxLen == 2
\* Largest number of body chunks one response streams.
MaxChunks == 2
\* Largest number of method calls the AtomicFile driver makes on one object.
MaxCalls == 4

\* -------------------------------------------------------------- the paths
\* Length of the random suffix of a temp file name.
SuffixLen == 8

\* Two of the 62^8 suffixes rng.sample(Alphanumeric) can draw.
Suffixes == { [k \in 1..SuffixLen |-> c] : c \in {"x", "y"} }

\* Path::file_name: the last component, <<>> standing for None.
file_name(p) == IF Len(p) = 0 THEN <<>> ELSE p[Len(p)]

\* Path::parent of a path with a file name.
parent(p) == SubSeq(p, 1, Len(p) - 1)

\* PathBuf::join with a relative file name.
join(dir, name) == Append(dir, name)

\* "." filename "." "tmp" suffix, collected in that order.
temp_filename(filename, suffix) == <<".">> \o filename \o <<".", "t", "m", "p">> \o suffix

\* The sibling of p that carries the temp file name (p has a file name).
temp_path(p, suffix) == join(parent(p), temp_filename(file_name(p), suffix))

\* ---------------------------------------------------------- the file system
DirEntry == [kind |-> "dir", ino |-> 0]
FileEntry(ino) == [kind |-> "file", ino |-> ino]

exists(fsv, p) == p \in DOMAIN fsv
is_file(fsv, p) == p \in DOMAIN fsv /\ fsv[p].kind = "file"
is_dir(fsv, p) == Len(p) = 0 \/ (p \in DOMAIN fsv /\ fsv[p].kind = "dir")

\* The file system with entry e at path p.
Link(fsv, p, e) == [q \in DOMAIN fsv \cup {p} |-> IF q = p THEN e ELSE fsv[q]]
\* The file system without path p.
Unlink(fsv, p) == [q \in DOMAIN fsv \ {p} |-> fsv[q]]

\* The prefixes of p that create_dir_all makes directories.
Ancestors(p) == { SubSeq(p, 1, k) : k \in 1..Len(p) }

\* create_dir_all(p): fails when a prefix exists and is no directory.
create_dir_all_ok(fsv, p) == \A q \in Ancestors(p) : ~is_file(fsv, q)
create_dir_all(fsv, p) ==
    [q \in DOMAIN fsv \cup Ancestors(p) |-> IF q \in DOMAIN fsv THEN fsv[q] ELSE DirEntry]

\* File::options().create_new(true).write(true).open(p)
create_new_ok(fsv, p) == ~exists(fsv, p) /\ is_dir(fsv, parent(p))

\* tokio::fs::rename(from, to)
rename_ok(fsv, from, to) ==
    /\ is_file(fsv, from)
    /\ is_dir(fsv, parent(to))
    /\ (exists(fsv, to) => is_file(fsv, to))
rename(fsv, from, to) == IF from = to THEN fsv ELSE Unlink(Link(fsv, to, fsv[from]), from)

\* tokio::fs::remove_file(p)
remove_file_ok(fsv, p) == is_file(fsv, p)
remove_file(fsv, p) == Unlink(fsv, p)

\* What a reader of path p gets: the bytes (each a natural number), or
\* <<-1>> where nothing exists and <<-2>> where a directory does.
Absent == <<-1>>
IsDir == <<-2>>
ReadPath(fsv, datav, p) ==
    IF ~exists(fsv, p) THEN Absent
    ELSE IF fsv[p].kind = "dir" THEN IsDir
    ELSE datav[fsv[p].ino]

\* ------------------------------------------------------------- AtomicFile
\* Option<T>: None, or Some(v).
None == [some |-> FALSE, v |-> <<>>]
Some(x) == [some |-> TRUE, v |-> x]

\* No AtomicFile (before open, and after the object is dropped).
NoAtomicFile ==
    [live |-> FALSE, temp_path |-> <<>>, target_path |-> <<>>, committed |-> FALSE, ino |-> 0]

\* The struct AtomicFile::open returns: the handle is the inode ino.
AtomicFile(target, temp, ino) ==
    [live |-> TRUE, temp_path |-> temp, target_path |-> target, committed |-> FALSE, ino |-> ino]

\* open fails without a file name, when exclusive creation fails, or on
\* another I/O error (io = FALSE).
open_ok(fsv, target, suffix, io) ==
    /\ Len(file_name(target)) > 0
    /\ create_new_ok(fsv, temp_path(target, suffix))
    /\ io

\* The file system after open created the empty temp file with inode ino.
open_fs(fsv, target, suffix, ino) == Link(fsv, temp_path(target, suffix), FileEntry(ino))

\* A write_all that appends to the file at the target path instead: what
\* an implementation without a temp file would do.
write_all_to_target(fsv, datav, a, bytes) ==
    IF is_file(fsv, a.target_path)
    THEN [datav EXCEPT ![fsv[a.target_path].ino] = @ \o bytes]
    ELSE datav
\* write_all appends to the open handle's inode.
write_all(fsv, datav, a, bytes) == [datav EXCEPT ![a.ino] = @ \o bytes]

\* self.file.sync_all(): what the handle's inode holds reaches stable storage.
sync_all(durablev, datav, a) == [durablev EXCEPT ![a.ino] = datav[a.ino]]

\* commit, past its early return: the flag is set before sync_all and
\* rename are awaited.
commit_begin(a) == [a EXCEPT !.committed = TRUE]

\* The path discard removes.
discard_path(a) == a.target_path

\* The object after its drop: its fields are kept for the record.
dropped(a) == [a EXCEPT !.live = FALSE]

\* Drop: the temp paths whose removal is spawned.
drop_cleanup(a) == IF a.live /\ ~a.committed THEN {a.temp_path} ELSE {}

\* ------------------------------------------------------ the HTTP response
\* A header value is a sequence of characters.  In a Content-Disposition
\* parameter "%68" is the percent-escape of "h", "%FF" one of a byte that is
\* no UTF-8, and "UTF-8''" the charset prefix of an extended value.
Digits == <<"1", "2", "3", "4", "5", "6", "7", "8", "9">>

RECURSIVE parse_u64(_)
\* str::parse::<u64>: None for the empty string and for a non-digit.
parse_u64(text) ==
    IF Len(text) = 0 THEN None
    ELSE LET c == text[Len(text)]
             d == IF c = "0" THEN {0} ELSE { k \in 1..Len(Digits) : Digits[k] = c }
             rest == IF Len(text) = 1 THEN Some(0) ELSE parse_u64(SubSeq(text, 1, Len(text) - 1))
         IN  IF d = {} \/ ~rest.some THEN None
             ELSE Some(10 * rest.v + (CHOOSE k \in d : TRUE))

\* The Content-Length headers a server sends: none, a number, not a number.
NoHeader == [present |-> FALSE, text |-> <<>>]
ContentLengths ==
    {NoHeader} \cup { [present |-> TRUE, text |-> <<Digits[n]>>] : n \in 1..MaxLen }
        \cup {[present |-> TRUE, text |-> <<"1", "x">>]}

\* str::strip_prefix("UTF-8''")
strip_prefix(value) ==
    IF Len(value) > 0 /\ value[1] = "UTF-8''" THEN Some(Tail(value)) ELSE None

\* percent_decode_str(value).decode_utf8().ok()
percent_decode_utf8(value) ==
    IF \E k \in 1..Len(value) : value[k] = "%FF" THEN None
    ELSE Some([k \in 1..Len(value) |-> IF value[k] = "%68" THEN "h" ELSE value[k]])

\* A Content-Disposition header as mailparse parses it: the disposition and
\* the parameters; utf8 is whether the raw header decodes as a string.
Disposition(utf8, disposition, params) ==
    [present |-> TRUE, utf8 |-> utf8, disposition |-> disposition, params |-> params]
NoDisposition == [present |-> FALSE, utf8 |-> TRUE, disposition |-> "inline", params |-> <<>>]

Star == "filename*"
Plain == "filename"
\* The parameter lists the model's servers send.
ParamLists ==
    { [n \in {Plain} |-> <<"h">>],
      [n \in {Star} |-> <<"UTF-8''", "%68">>],
      [n \in {Star, Plain} |-> IF n = Star THEN <<"%68">> ELSE <<"g">>],
      [n \in {Plain} |-> <<"%FF">>] }
Dispositions ==
    {NoDisposition, Disposition(FALSE, "attachment", [n \in {Plain} |-> <<"h">>]),
     Disposition(TRUE, "inline", [n \in {Plain} |-> <<"h">>])}
        \cup { Disposition(TRUE, "attachment", ps) : ps \in ParamLists }

Ok(x) == [tag |-> "Ok", v |-> x, err |-> ""]
Err(e) == [tag |-> "Err", v |-> <<>>, err |-> e]
Panic(e) == [tag |-> "Panic", v |-> <<>>, err |-> e]

\* filename* (prefix stripped, percent-decoded) or else filename
\* (percent-decoded), of an attachment.
filename_from_disposition(cd) ==
    LET star == IF Star \in DOMAIN cd.params THEN strip_prefix(cd.params[Star]) ELSE None
        stardec == IF star.some THEN percent_decode_utf8(star.v) ELSE None
        plain == IF Plain \in DOMAIN cd.params
                 THEN percent_decode_utf8(cd.params[Plain]) ELSE None
        got == IF stardec.some THEN stardec ELSE plain
    IN  IF cd.disposition = "attachment"
        THEN IF got.some THEN Ok(got.v) ELSE Err("cd_unparseable")
        ELSE Err("cd_not_attachment")

\* ------------------------------------------------------------ FileDownload
OverwriteBehaviours == {"Always", "CheckLength", "Never", "Fail"}
UsagePrefs == {"Require", "Prefer", "Reject"}

\* OverwriteBehaviour::conditional
conditional(o) == o = "CheckLength"
\* UsagePref::bool
bool(u) == u \in {"Require", "Prefer"}
\* UsagePref::strict
strict(u) == u = "Require"

expect_filename(c) ==
    bool(c.filename_use_content_disposition) \/ bool(c.filename_use_final_url)

\* A decision that follows the preflight flag alone.
should_preflight_always(c) == c.preflight_head
should_preflight(c) == c.preflight_head /\ (expect_filename(c) \/ conditional(c.overwrite))

\* A resolution that lets the explicit file name win over the header.
filename_explicit_first(c, cd) ==
    IF c.filename.some THEN Ok(Some(c.filename.v))
    ELSE IF bool(c.filename_use_content_disposition) /\ cd.present
    THEN IF ~cd.utf8 THEN Err("cd_not_utf8")
         ELSE LET f == filename_from_disposition(cd)
              IN  IF f.tag = "Ok" THEN Ok(Some(f.v)) ELSE f
    ELSE IF bool(c.filename_use_content_disposition)
            /\ strict(c.filename_use_content_disposition)
    THEN Err("cd_missing")
    ELSE IF bool(c.filename_use_final_url) THEN Panic("unimplemented")
    ELSE IF expect_filename(c) THEN Err("filename_required")
    ELSE Ok(None)
\* FileDownload::filename: Ok(Some(name)), Ok(None), Err, or the panic of
\* unimplemented!().
filename(c, cd) ==
    IF bool(c.filename_use_content_disposition) /\ cd.present
    THEN IF ~cd.utf8 THEN Err("cd_not_utf8")
         ELSE LET f == filename_from_disposition(cd)
              IN  IF f.tag = "Ok" THEN Ok(Some(f.v)) ELSE f
    ELSE IF bool(c.filename_use_content_disposition)
            /\ strict(c.filename_use_content_disposition)
    THEN Err("cd_missing")
    ELSE IF bool(c.filename_use_final_url) THEN Panic("unimplemented")
    ELSE IF c.filename.some THEN Ok(Some(c.filename.v))
    ELSE IF expect_filename(c) THEN Err("filename_required")
    ELSE Ok(None)

\* The destination path: target joined with the name, or target itself.
destination(c, name) == IF name.some THEN join(c.target, name.v) ELSE c.target

\* A match that replaces the file under Never.
overwrite_never_redownloads(o, size, len) ==
    IF o = "Fail" THEN "Fail"
    ELSE IF o = "CheckLength" /\ size = len THEN "Existing"
    ELSE "Redownload"
\* A match whose CheckLength keeps the file when the sizes differ.
overwrite_checklength_swapped(o, size, len) ==
    IF o = "Never" THEN "Existing"
    ELSE IF o = "Fail" THEN "Fail"
    ELSE IF o = "CheckLength" /\ size # len THEN "Existing"
    ELSE "Redownload"
\* The match on self.overwrite for an existing regular file of the given
\* size, len being the Content-Length.
overwrite(o, size, len) ==
    IF o = "Never" THEN "Existing"
    ELSE IF o = "Fail" THEN "Fail"
    ELSE IF o = "CheckLength" /\ size = len THEN "Existing"
    ELSE "Redownload"

\* What the existence check and the match make of the decision.
existing(o, size, len) ==
    IF overwrite(o, size, len) = "Existing" THEN <<"Return", Ok("Existing")>>
    ELSE IF overwrite(o, size, len) = "Fail" THEN <<"Return", Err("exists_fail")>>
    ELSE <<"Fetch", Ok("Redownload")>>

\* What download decides from the first response's headers, synchronously:
\* Content-Length, the file name, the existence check and the overwrite
\* match.  step is "Return" (download returns r), "Panic", "Mkdir" (the
\* destination is new: create_dir_all is awaited) or "Fetch" (an existing
\* file is replaced).  existed is what the destination held at the check.
verdict(c, fsv, cl, len, name, dest, was) ==
    IF ~cl.present THEN <<"Return", Err("no_content_length")>>
    ELSE IF ~len.some THEN <<"Return", Err("bad_content_length")>>
    ELSE IF name.tag = "Err" THEN <<"Return", name>>
    ELSE IF name.tag = "Panic" THEN <<"Panic", name>>
    ELSE IF exists(fsv, dest)
    THEN IF ~is_file(fsv, dest) THEN <<"Return", Err("not_regular")>>
         ELSE existing(c.overwrite, Len(was), len.v)
    ELSE <<"Mkdir", Ok("Download")>>

Decision(v, len, name, dest, was) ==
    [step |-> v[1], r |-> v[2], outcome |-> IF v[2].tag = "Ok" THEN v[2].v ELSE "none",
     dest |-> dest, known |-> len.some /\ name.tag = "Ok",
     len |-> IF len.some THEN len.v ELSE 0, existed |-> was]

decide_at(c, fsv, cl, len, name, dest, was) ==
    Decision(verdict(c, fsv, cl, len, name, dest, was), len, name, dest, was)

decide_named(c, fsv, datav, cl, len, name, dest) ==
    decide_at(c, fsv, cl, len, name, dest,
              IF name.tag = "Ok" THEN ReadPath(fsv, datav, dest) ELSE Absent)

decide_parsed(c, fsv, datav, cl, len, name) ==
    decide_named(c, fsv, datav, cl, len, name,
                 IF name.tag = "Ok" THEN destination(c, name.v) ELSE <<>>)

decide(c, fsv, datav, cl, cd) ==
    decide_parsed(c, fsv, datav, cl, IF cl.present THEN parse_u64(cl.text) ELSE None,
                  filename(c, cd))

\* ------------------------------------------------------------------ state
VARIABLES
    items,          \* the FileDownload requests handed to run, in order
    world,          \* what the servers and the disk of this run can do
    capacity,       \* the permits the Semaphore was built with
    permits,        \* the permits available now
    run,            \* Operation::run: its loop ("spawn", "join") or its result
    cursor,         \* the index the current loop of run is at
    t,              \* per item: the task's position and download's locals
    af,             \* per item: its AtomicFile
    fs,             \* the directory entries
    data,           \* the bytes of each inode
    durable,        \* the bytes of each inode that are on stable storage
    fs0,            \* the directory entries before the run
    cleanups,       \* the removals Drop has spawned that have not run yet
    totalprogress,  \* the aggregate bar: position, length, finished
    errlines,       \* per item: the error lines printed for it
    observed,       \* what the reader last read: the path and the bytes
    calls,          \* the driver's calls on one AtomicFile, with results
    pending         \* the driver's call that awaits sync_all or rename

vars == <<items, world, capacity, permits, run, cursor, t, af, fs, data, durable,
          fs0, cleanups, totalprogress, errlines, observed, calls, pending>>

N == Len(items)
Items == 1..N

\* The byte item i's server streams; 0 is the byte of a pre-existing file.
Byte(i) == i
OldBytes(size) == [k \in 1..size |-> 0]

Target == << <<"d">> >>
Explicit == <<"e">>

Configs ==
    [target : {Target}, preflight_head : BOOLEAN, overwrite : OverwriteBehaviours,
     filename_use_content_disposition : UsagePrefs, filename_use_final_url : UsagePrefs,
     filename : {None, Some(Explicit)}]

\* The file systems a run starts from: nothing; the target directory; a
\* regular file where a destination resolves to; a directory there.
EmptyFS == [q \in {} |-> DirEntry]
StartFS ==
    {EmptyFS, Link(EmptyFS, Target, DirEntry), Link(EmptyFS, Target, FileEntry(0))}
        \cup { Link(Link(EmptyFS, Target, DirEntry), join(Target, nm), e) :
                  nm \in {Explicit, <<"h">>}, e \in {DirEntry, FileEntry(0)} }

\* A task record before the task was spawned.
Fresh ==
    [pc |-> "Queued", preflight |-> FALSE, reqs |-> <<>>, cl |-> NoHeader,
     cd |-> NoDisposition, len |-> 0, dest |-> <<>>, known |-> FALSE,
     answered |-> FALSE, existed |-> Absent, outcome |-> "none", res |-> "none",
     err |-> "",
     got |-> <<>>, bar |-> "none", pos |-> 0]

\* The driver awaits nothing.
NoCall == [op |-> "none", stage |-> "none"]
\* A finished call: the method, what it returned, and what it did to the
\* directory ("rename", "remove" or "none").
Call(op, res, effect) == [op |-> op, res |-> res, effect |-> effect]

\* ------------------------------------------------------------------- Init
\* Every response, header and I/O outcome the model knows.
AnyWorld ==
    [transport |-> BOOLEAN, cls |-> ContentLengths, cds |-> Dispositions,
     io |-> BOOLEAN, stream |-> BOOLEAN, suffixes |-> Suffixes, chunks |-> MaxChunks]

\* The same, with the random suffix fixed: one download cannot collide with
\* itself.
OneSuffixWorld == [AnyWorld EXCEPT !.suffixes = { sfx \in Suffixes : sfx[1] = "x" }]

\* Servers that answer or refuse, always with the same Content-Length and
\* without Content-Disposition, whose one-chunk bodies may break off; a disk
\* that works.
PlainWorld ==
    [transport |-> BOOLEAN, cls |-> {[present |-> TRUE, text |-> <<Digits[1]>>]},
     cds |-> {NoDisposition}, io |-> {TRUE}, stream |-> BOOLEAN, suffixes |-> Suffixes,
     chunks |-> 1]

\* The sizes the pre-existing file of inode 0 can have in file system f.
OldSizes(f) == IF \E q \in DOMAIN f : f[q].kind = "file" THEN 1..MaxLen ELSE {0}

InitCommon ==
    /\ permits = capacity
    /\ run = "spawn"
    /\ cursor = 1
    /\ t = [i \in Items |-> Fresh]
    /\ af = [i \in Items |-> NoAtomicFile]
    /\ fs \in StartFS
    /\ \E size \in OldSizes(fs) :
           data = [k \in 0..N |-> IF k = 0 THEN OldBytes(size) ELSE <<>>]
    /\ durable = data
    /\ fs0 = fs
    /\ cleanups = {}
    /\ totalprogress = [pos |-> 0, len |-> N, finished |-> FALSE]
    /\ errlines = [i \in Items |-> 0]
    /\ observed = [path |-> <<>>, bytes |-> Absent]
    /\ calls = <<>>
    /\ pending = NoCall

\* One request of any configuration, run by an Operation of the default
\* concurrency, against any server and disk.
InitDL ==
    /\ items \in [1..1 -> Configs]
    /\ world = OneSuffixWorld
    /\ capacity = 1
    /\ InitCommon

\* The requests of the orchestrator runs, each to a file name of its own:
\* with a preflighted length check, or with the final-URL source required.
Request(name, kind) ==
    [target |-> Target, preflight_head |-> kind = "checked",
     overwrite |-> IF kind = "checked" THEN "CheckLength" ELSE "Never",
     filename_use_content_disposition |-> "Reject",
     filename_use_final_url |-> IF kind = "final_url" THEN "Require" ELSE "Reject",
     filename |-> Some(name)]
RequestKinds == {"checked", "final_url"}

\* MaxItems requests run by an Operation of capacity 1..MaxPermits, in an
\* empty target directory.
InitOp ==
    /\ \E kind \in [1..MaxItems -> RequestKinds] :
           items = [i \in 1..MaxItems |-> Request(<<"e", Digits[i]>>, kind[i])]
    /\ world = [PlainWorld EXCEPT !.suffixes = OneSuffixWorld.suffixes]
    /\ capacity \in 1..MaxPermits
    /\ InitCommon
    /\ fs = Link(EmptyFS, Target, DirEntry)

\* ---------------------------------------------------------- Operation::run
\* acquire_owned().await: the next item gets a permit when one is free.
RunAcquire ==
    /\ run = "spawn"
    /\ t[cursor].pc = "Queued"
    /\ permits > 0
    /\ permits' = permits - 1
    /\ t' = [t EXCEPT ![cursor].pc = "Permitted"]
    /\ UNCHANGED <<items, world, durable, capacity, run, cursor, af, fs, data, fs0, cleanups,
                   totalprogress, errlines, observed, calls, pending>>

\* spawn(create_task(ticket, ...)); handles.push(jh); the loop moves on, and
\* after the last item the join loop starts.
RunSpawn ==
    /\ run = "spawn"
    /\ t[cursor].pc = "Permitted"
    /\ t' = [t EXCEPT ![cursor].pc = "Spawned"]
    /\ run' = IF cursor = N THEN "join" ELSE "spawn"
    /\ cursor' = IF cursor = N THEN 1 ELSE cursor + 1
    /\ UNCHANGED <<items, world, durable, capacity, permits, af, fs, data, fs0, cleanups,
                   totalprogress, errlines, observed, calls, pending>>

\* A join loop that takes the end of every task for a JoinError.
run_join_fails_always(pc) == TRUE
\* h.await?: a JoinError (the task panicked) makes run return Err.
run_join_fails(pc) == pc = "Panicked"

\* for h in handles { h.await? }, then totalprogress.finish() and Ok(()).
RunJoin ==
    /\ run = "join"
    /\ t[cursor].pc \in {"Done", "Panicked"}
    /\ IF run_join_fails(t[cursor].pc)
       THEN run' = "Err" /\ UNCHANGED <<cursor, totalprogress>>
       ELSE IF cursor = N
       THEN /\ run' = "Ok"
            /\ totalprogress' = [totalprogress EXCEPT !.finished = TRUE]
            /\ UNCHANGED cursor
       ELSE cursor' = cursor + 1 /\ UNCHANGED <<run, totalprogress>>
    /\ UNCHANGED <<items, world, durable, capacity, permits, t, af, fs, data, fs0, cleanups,
                   errlines, observed, calls, pending>>

\* ------------------------------------------------------------- create_task
\* A release that gives back two permits.
release_two(p) == p + 2
\* A release that gives nothing back.
release_none(p) == p
\* The ticket is dropped (drop(ticket), or the unwinding of a panic): one
\* permit goes back.
release(p) == p + 1

\* The progress callback: the first call replaces the spinner by a bar.
progress_cb(rec, pos) == [rec EXCEPT !.bar = "bar", !.pos = pos]

\* The match on download's result: the bar, if there is one, is finalized.
final_bar(bar, tag) ==
    IF bar = "bar" THEN (IF tag = "Ok" THEN "success" ELSE "failure") ELSE bar

\* create_task ends, or unwinds: a spinner that the callback never replaced
\* goes out of scope as it is, without a style of the task's choosing.
scope_end(bar) == IF bar = "spinner" THEN "dropped" ELSE bar

\* download returns r with locals rec: its AtomicFile is dropped, the task
\* reports the result, increments the aggregate bar and starts its sleep.
Returned(i, rec, r) ==
    /\ t' = [t EXCEPT ![i] = [rec EXCEPT !.pc = "Cooldown", !.res = r.tag, !.err = r.err,
                                         !.outcome = IF r.tag = "Ok" THEN r.v ELSE "none",
                                         !.bar = final_bar(rec.bar, r.tag)]]
    /\ af' = [af EXCEPT ![i] = dropped(@)]
    /\ cleanups' = cleanups \cup drop_cleanup(af[i])
    /\ totalprogress' = [totalprogress EXCEPT !.pos = @ + 1]
    /\ errlines' = IF r.tag = "Err" THEN [errlines EXCEPT ![i] = @ + 1] ELSE errlines

\* The task starts: the spinner is added, download decides whether to
\* preflight and sends its first request.
TaskBegin(i) ==
    /\ t[i].pc = "Spawned"
    /\ LET pre == should_preflight(items[i])
       IN  t' = [t EXCEPT ![i] = [@ EXCEPT !.pc = "Response1", !.bar = "spinner",
                                            !.preflight = pre,
                                            !.reqs = <<IF pre THEN "HEAD" ELSE "GET">>]]
    /\ UNCHANGED <<items, world, durable, capacity, permits, run, cursor, af, fs, data, fs0,
                   cleanups, totalprogress, errlines, observed, calls, pending>>

\* After the decision to write: the GET of a preflighted download is sent,
\* otherwise AtomicFile::open is awaited.
fetch(rec) ==
    IF rec.preflight
    THEN [rec EXCEPT !.pc = "Response2", !.reqs = Append(@, "GET")]
    ELSE [rec EXCEPT !.pc = "Open"]

\* The first request fails: no connection, or a status that is not 2xx.
DlRequestFails(i) ==
    /\ t[i].pc = "Response1"
    /\ FALSE \in world.transport
    /\ Returned(i, t[i], Err(IF t[i].preflight THEN "preflight_http" ELSE "http"))
    /\ UNCHANGED <<items, world, durable, capacity, permits, run, cursor, fs, data, fs0,
                   observed, calls, pending>>

\* The first response arrives with headers cl and cd, and download runs to
\* its next await or to its return.
DlResponse1(i, cl, cd) ==
    /\ t[i].pc = "Response1"
    /\ TRUE \in world.transport
    /\ \E d \in {decide(items[i], fs, data, cl, cd)} :
       \E rec \in {[t[i] EXCEPT !.answered = TRUE, !.cl = cl, !.cd = cd, !.len = d.len,
                                 !.dest = d.dest,
                                 !.known = d.known, !.existed = d.existed,
                                 !.outcome = d.outcome]} :
           CASE d.step = "Return" ->
                  Returned(i, rec, d.r) /\ UNCHANGED permits
             [] d.step = "Panic" ->
                  /\ t' = [t EXCEPT ![i] = [rec EXCEPT !.pc = "Panicked", !.res = "Panic",
                                                       !.err = d.r.err,
                                                       !.bar = scope_end(@)]]
                  /\ permits' = release(permits)
                  /\ UNCHANGED <<af, cleanups, totalprogress, errlines>>
             [] d.step = "Mkdir" ->
                  /\ t' = [t EXCEPT ![i] = [rec EXCEPT !.pc = "Mkdir"]]
                  /\ UNCHANGED <<permits, af, cleanups, totalprogress, errlines>>
             [] d.step = "Fetch" ->
                  /\ t' = [t EXCEPT ![i] = fetch(rec)]
                  /\ UNCHANGED <<permits, af, cleanups, totalprogress, errlines>>
    /\ UNCHANGED <<items, world, durable, capacity, run, cursor, fs, data, fs0, observed,
                   calls, pending>>

\* create_dir_all(parent) completes.
DlMkdir(i, io) ==
    /\ t[i].pc = "Mkdir"
    /\ IF io /\ create_dir_all_ok(fs, parent(t[i].dest))
       THEN /\ fs' = create_dir_all(fs, parent(t[i].dest))
            /\ t' = [t EXCEPT ![i] = fetch(t[i])]
            /\ UNCHANGED <<af, cleanups, totalprogress, errlines>>
       ELSE /\ Returned(i, t[i], Err("mkdir"))
            /\ UNCHANGED fs
    /\ UNCHANGED <<items, world, durable, capacity, permits, run, cursor, data, fs0, observed,
                   calls, pending>>

\* The GET that follows a preflight answers.
DlResponse2(i, up) ==
    /\ t[i].pc = "Response2"
    /\ IF up
       THEN /\ t' = [t EXCEPT ![i].pc = "Open"]
            /\ UNCHANGED <<af, cleanups, totalprogress, errlines>>
       ELSE Returned(i, t[i], Err("http"))
    /\ UNCHANGED <<items, world, durable, capacity, permits, run, cursor, fs, data, fs0,
                   observed, calls, pending>>

\* AtomicFile::open completes; on success the callback is called with 0.
DlOpen(i, io, suffix) ==
    /\ t[i].pc = "Open"
    /\ IF open_ok(fs, t[i].dest, suffix, io)
       THEN /\ fs' = open_fs(fs, t[i].dest, suffix, i)
            /\ data' = [data EXCEPT ![i] = <<>>]
            /\ af' = [af EXCEPT ![i] = AtomicFile(t[i].dest, temp_path(t[i].dest, suffix), i)]
            /\ t' = [t EXCEPT ![i] = progress_cb([@ EXCEPT !.pc = "Stream"], 0)]
            /\ UNCHANGED <<cleanups, totalprogress, errlines>>
       ELSE /\ Returned(i, t[i], Err("open"))
            /\ UNCHANGED <<fs, data>>
    /\ UNCHANGED <<items, world, durable, capacity, permits, run, cursor, fs0, observed,
                   calls, pending>>

\* The stream yields an item: a chunk that write_all then writes, or an
\* error; a chunk is one byte.
DlChunk(i, ok, io) ==
    /\ t[i].pc = "Stream"
    /\ Len(t[i].got) < world.chunks
    /\ IF ok /\ io
       THEN /\ data' = write_all(fs, data, af[i], <<Byte(i)>>)
            /\ t' = [t EXCEPT ![i] = progress_cb([@ EXCEPT !.got = Append(@, Byte(i))],
                                                 Len(t[i].got) + 1)]
            /\ UNCHANGED <<af, cleanups, totalprogress, errlines>>
       ELSE /\ Returned(i, IF ok THEN [t[i] EXCEPT !.got = Append(@, Byte(i))] ELSE t[i],
                        Err(IF ok THEN "write" ELSE "stream"))
            /\ UNCHANGED data
    /\ UNCHANGED <<items, world, durable, capacity, permits, run, cursor, fs, fs0, observed,
                   calls, pending>>

\* The stream ends and commit starts: the flag is set, sync_all is awaited.
DlStreamEnd(i) ==
    /\ t[i].pc = "Stream"
    /\ t' = [t EXCEPT ![i].pc = "Sync"]
    /\ af' = [af EXCEPT ![i] = commit_begin(@)]
    /\ UNCHANGED <<items, world, durable, capacity, permits, run, cursor, fs, data, fs0,
                   cleanups, totalprogress, errlines, observed, calls, pending>>

\* sync_all completes.
DlSync(i, io) ==
    /\ t[i].pc = "Sync"
    /\ IF io
       THEN /\ t' = [t EXCEPT ![i].pc = "Rename"]
            /\ durable' = sync_all(durable, data, af[i])
            /\ UNCHANGED <<af, cleanups, totalprogress, errlines>>
       ELSE Returned(i, t[i], Err("commit")) /\ UNCHANGED durable
    /\ UNCHANGED <<items, world, capacity, permits, run, cursor, fs, data, fs0,
                   observed, calls, pending>>

\* rename completes, and with it commit and download.
DlRename(i, io) ==
    /\ t[i].pc = "Rename"
    /\ IF io /\ rename_ok(fs, af[i].temp_path, af[i].target_path)
       THEN /\ fs' = rename(fs, af[i].temp_path, af[i].target_path)
            /\ Returned(i, t[i], Ok(t[i].outcome))
       ELSE /\ Returned(i, t[i], Err("commit"))
            /\ UNCHANGED fs
    /\ UNCHANGED <<items, world, durable, capacity, permits, run, cursor, data, fs0, observed,
                   calls, pending>>

\* sleep(wait_duration) is over; the ticket is dropped and the task ends.
TaskRelease(i) ==
    /\ t[i].pc = "Cooldown"
    /\ t' = [t EXCEPT ![i].pc = "Done", ![i].bar = scope_end(@)]
    /\ permits' = release(permits)
    /\ UNCHANGED <<items, world, durable, capacity, run, cursor, af, fs, data, fs0, cleanups,
                   totalprogress, errlines, observed, calls, pending>>

\* A removal spawned by Drop runs: remove_file, its error ignored.
CleanupRun(p) ==
    /\ p \in cleanups
    /\ cleanups' = cleanups \ {p}
    /\ fs' = IF remove_file_ok(fs, p) THEN remove_file(fs, p) ELSE fs
    /\ UNCHANGED <<items, world, durable, capacity, permits, run, cursor, t, af, data, fs0,
                   totalprogress, errlines, observed, calls, pending>>

Next ==
    \/ RunAcquire
    \/ RunSpawn
    \/ RunJoin
    \/ \E i \in Items : TaskBegin(i)
    \/ \E i \in Items : DlRequestFails(i)
    \/ \E i \in Items : \E cl \in world.cls, cd \in world.cds : DlResponse1(i, cl, cd)
    \/ \E i \in Items : \E io \in world.io : DlMkdir(i, io)
    \/ \E i \in Items : \E up \in world.transport : DlResponse2(i, up)
    \/ \E i \in Items : \E io \in world.io, sfx \in world.suffixes : DlOpen(i, io, sfx)
    \/ \E i \in Items : \E ok \in world.stream, io \in world.io : DlChunk(i, ok, io)
    \/ \E i \in Items : DlStreamEnd(i)
    \/ \E i \in Items : \E io \in world.io : DlSync(i, io)
    \/ \E i \in Items : \E io \in world.io : DlRename(i, io)
    \/ \E i \in Items : TaskRelease(i)
    \/ \E p \in cleanups : CleanupRun(p)

\* The steps of item i's task: create_task with the download it awaits.
TaskStep(i) ==
    \/ TaskBegin(i)
    \/ DlRequestFails(i)
    \/ \E cl \in world.cls, cd \in world.cds : DlResponse1(i, cl, cd)
    \/ \E io \in world.io : DlMkdir(i, io)
    \/ \E up \in world.transport : DlResponse2(i, up)
    \/ \E io \in world.io, sfx \in world.suffixes : DlOpen(i, io, sfx)
    \/ \E ok \in world.stream, io \in world.io : DlChunk(i, ok, io)
    \/ DlStreamEnd(i)
    \/ \E io \in world.io : DlSync(i, io)
    \/ \E io \in world.io : DlRename(i, io)
    \/ TaskRelease(i)

\* One download of any configuration.
SpecDL == InitDL /\ [][Next]_vars

\* MaxItems downloads under a limiter.
SpecOp == InitOp /\ [][Next]_vars

\* The runs whose requests are all of the checked kind, under the runtime's
\* scheduling: as long as run or a task can take a step, or an awaited
\* request, file operation or sleep can complete, one of them does.
InitOpFair ==
    /\ items = [i \in 1..MaxItems |-> Request(<<"e", Digits[i]>>, "checked")]
    /\ world = [PlainWorld EXCEPT !.suffixes = OneSuffixWorld.suffixes]
    /\ capacity \in 1..MaxPermits
    /\ InitCommon
    /\ fs = Link(EmptyFS, Target, DirEntry)

SpecOpFair ==
    /\ InitOpFair /\ [][Next]_vars
    /\ WF_vars(Next)

\* A preflighted request to the file name Explicit, unless the response
\* names another, that never replaces a file.
Guarded(policy) ==
    [target |-> Target, preflight_head |-> TRUE, overwrite |-> policy,
     filename_use_content_disposition |-> "Prefer", filename_use_final_url |-> "Reject",
     filename |-> Some(Explicit)]

\* MaxItems requests, in turn with the policies Never and Fail, all to the
\* same destination, which does not exist yet, run by an Operation of
\* capacity MaxPermits.
InitRace ==
    /\ items = [i \in 1..MaxItems |-> Guarded(IF i % 2 = 1 THEN "Never" ELSE "Fail")]
    /\ world = PlainWorld
    /\ capacity = MaxPermits
    /\ InitCommon
    /\ fs = Link(EmptyFS, Target, DirEntry)

\* Downloads that race for one destination.
SpecRace == InitRace /\ [][Next]_vars

\* ------------------------------------------------- the AtomicFile driver
\* A caller other than download: it opens one AtomicFile at d/e and calls
\* write_all, commit and discard in any order, then drops the object; a
\* reader reads d/e at any time.
InitAF ==
    /\ items \in [1..1 -> {Request(Explicit, "checked")}]
    /\ world = OneSuffixWorld
    /\ capacity = 1
    /\ InitCommon

Dest == join(Target, Explicit)
MayCall == af[1].live /\ pending = NoCall /\ Len(calls) <= MaxCalls

AFOpen(io, sfx) ==
    /\ Len(calls) = 0
    /\ IF open_ok(fs, Dest, sfx, io)
       THEN /\ fs' = open_fs(fs, Dest, sfx, 1)
            /\ data' = [data EXCEPT ![1] = <<>>]
            /\ af' = [af EXCEPT ![1] = AtomicFile(Dest, temp_path(Dest, sfx), 1)]
            /\ calls' = <<Call("open", "Ok", "none")>>
       ELSE /\ calls' = <<Call("open", "Err", "none")>>
            /\ UNCHANGED <<fs, data, af>>
    /\ UNCHANGED <<items, world, durable, capacity, permits, run, cursor, t, fs0, cleanups,
                   totalprogress, errlines, observed, pending>>

AFWriteAll(io) ==
    /\ MayCall
    /\ data' = IF io THEN write_all(fs, data, af[1], <<Byte(1)>>) ELSE data
    /\ calls' = Append(calls, Call("write_all", IF io THEN "Ok" ELSE "Err", "none"))
    /\ UNCHANGED <<items, world, durable, capacity, permits, run, cursor, t, af, fs, fs0, cleanups,
                   totalprogress, errlines, observed, pending>>

\* commit is called: it returns at once when the flag is set, and
\* otherwise sets it and awaits sync_all.
AFCommit ==
    /\ MayCall
    /\ IF af[1].committed
       THEN /\ calls' = Append(calls, Call("commit", "Ok", "none"))
            /\ UNCHANGED <<af, pending>>
       ELSE /\ af' = [af EXCEPT ![1] = commit_begin(@)]
            /\ pending' = [op |-> "commit", stage |-> "sync"]
            /\ UNCHANGED calls
    /\ UNCHANGED <<items, world, durable, capacity, permits, run, cursor, t, fs, data, fs0,
                   cleanups, totalprogress, errlines, observed>>

AFSync(io) ==
    /\ pending.stage = "sync"
    /\ IF io
       THEN /\ pending' = [pending EXCEPT !.stage = "rename"]
            /\ durable' = sync_all(durable, data, af[1])
            /\ UNCHANGED calls
       ELSE /\ pending' = NoCall
            /\ calls' = Append(calls, Call("commit", "Err", "none"))
            /\ UNCHANGED durable
    /\ UNCHANGED <<items, world, capacity, permits, run, cursor, t, af, fs, data, fs0,
                   cleanups, totalprogress, errlines, observed>>

AFRename(io) ==
    /\ pending.stage = "rename"
    /\ pending' = NoCall
    /\ IF io /\ rename_ok(fs, af[1].temp_path, af[1].target_path)
       THEN /\ fs' = rename(fs, af[1].temp_path, af[1].target_path)
            /\ calls' = Append(calls, Call("commit", "Ok", "rename"))
       ELSE /\ calls' = Append(calls, Call("commit", "Err", "none"))
            /\ UNCHANGED fs
    /\ UNCHANGED <<items, world, durable, capacity, permits, run, cursor, t, af, data, fs0,
                   cleanups, totalprogress, errlines, observed>>

\* discard returns at once when the flag is set, and otherwise removes the
\* path discard_path names.
AFDiscard(io) ==
    /\ MayCall
    /\ IF af[1].committed
       THEN calls' = Append(calls, Call("discard", "Ok", "none")) /\ UNCHANGED fs
       ELSE IF io /\ remove_file_ok(fs, discard_path(af[1]))
       THEN /\ fs' = remove_file(fs, discard_path(af[1]))
            /\ calls' = Append(calls, Call("discard", "Ok", "remove"))
       ELSE calls' = Append(calls, Call("discard", "Err", "none")) /\ UNCHANGED fs
    /\ UNCHANGED <<items, world, durable, capacity, permits, run, cursor, t, af, data, fs0,
                   cleanups, totalprogress, errlines, observed, pending>>

\* The object is dropped: Drop spawns the removal of the temp path unless
\* the flag is set.
AFDrop ==
    /\ af[1].live
    /\ pending = NoCall
    /\ af' = [af EXCEPT ![1] = dropped(@)]
    /\ cleanups' = cleanups \cup drop_cleanup(af[1])
    /\ calls' = Append(calls, Call("drop", "Ok", "none"))
    /\ UNCHANGED <<items, world, durable, capacity, permits, run, cursor, t, fs, data, fs0,
                   totalprogress, errlines, observed, pending>>

\* A concurrent reader reads the target path.
AFRead ==
    /\ observed' = [path |-> Dest, bytes |-> ReadPath(fs, data, Dest)]
    /\ observed' # observed
    /\ UNCHANGED <<items, world, durable, capacity, permits, run, cursor, t, af, fs, data, fs0,
                   cleanups, totalprogress, errlines, calls, pending>>

NextAF ==
    \/ \E io \in world.io, sfx \in world.suffixes : AFOpen(io, sfx)
    \/ \E io \in world.io : AFWriteAll(io)
    \/ AFCommit
    \/ \E io \in world.io : AFSync(io)
    \/ \E io \in world.io : AFRename(io)
    \/ \E io \in world.io : AFDiscard(io)
    \/ AFDrop
    \/ \E p \in cleanups : CleanupRun(p)
    \/ AFRead

\* One AtomicFile under any caller.
SpecAF == InitAF /\ [][NextAF]_vars

\* ----------------------------------------------------------- the claims
\* What the destination of item i held before the run, and holds now.
Before(i) == ReadPath(fs0, data, t[i].dest)
Now(i) == ReadPath(fs, data, t[i].dest)

\* The stream of item i has ended: t[i].got is the complete new content.
StreamEnded(i) ==
    \/ t[i].pc \in {"Sync", "Rename"}
    \/ t[i].pc \in {"Cooldown", "Done"} /\ (t[i].res = "Ok" \/ t[i].err = "commit")

\* AtomicFile::open succeeded for item i.
Opened(i) == Len(af[i].temp_path) > 0

\* C1 (atomicity): at every instant of one download the destination path
\* holds the complete previous content (or nothing, if there was none) or
\* the complete new content, the latter only once the stream has ended;
\* the bytes streamed so far are at the temp path until the rename.
C1_Atomicity ==
    \A i \in Items :
        t[i].known =>
            /\ Now(i) = Before(i) \/ (StreamEnded(i) /\ Now(i) = t[i].got)
            /\ t[i].pc \in {"Stream", "Sync", "Rename"} =>
                   /\ ReadPath(fs, data, af[i].temp_path) = t[i].got
                   /\ Now(i) = Before(i)

\* A download replaced an old file of MaxLen bytes by a body of MaxChunks
\* chunks.
C1_Witness ==
    \E i \in Items :
        /\ t[i].res = "Ok" /\ t[i].outcome = "Redownload"
        /\ Len(Before(i)) = MaxLen /\ Before(i) # t[i].got
        /\ Len(t[i].got) = MaxChunks /\ Now(i) = t[i].got

\* C2 (no partial leftovers): when download returned an error after
\* AtomicFile::open succeeded and no spawned removal is outstanding, the
\* destination holds what it held before and the temp path is gone.
C2_NoPartialLeftovers ==
    \A i \in Items :
        (t[i].res = "Err" /\ Opened(i) /\ af[i].temp_path \notin cleanups) =>
            /\ Now(i) = Before(i)
            /\ ~exists(fs, af[i].temp_path)

\* The calls of the driver so far that are commits, in order.
Commits == { k \in 1..Len(calls) : calls[k].op = "commit" }

\* C3 (idempotent commit/discard): a commit after the first commit changes
\* nothing in the directory and tells the caller what the first one told
\* it; a discard after a commit changes nothing and returns success.
C3_IdempotentCommitDiscard ==
    \A j \in Commits : \A k \in (j + 1)..Len(calls) :
        /\ calls[k].op = "commit" =>
               calls[k].effect = "none" /\ calls[k].res = calls[j].res
        /\ calls[k].op = "discard" =>
               calls[k].effect = "none" /\ calls[k].res = "Ok"

\* The object's rename took place; a removal by discard or by the cleanup
\* of Drop took place.
Renamed == \E k \in 1..Len(calls) : calls[k].effect = "rename"
Discarded == \E k \in 1..Len(calls) : calls[k].effect = "remove"
CleanedUp ==
    /\ Opened(1) /\ ~af[1].live /\ ~af[1].committed
    /\ af[1].temp_path \notin cleanups
\* The object was dropped and every spawned removal has run.
Terminated == Opened(1) /\ ~af[1].live /\ cleanups = {}

\* C4 (lifecycle): never both the rename and a removal; once the object is
\* dropped and its cleanup has run, one of the two has taken place.
C4_ExactlyOneTermination ==
    /\ ~(Renamed /\ (Discarded \/ CleanedUp))
    /\ Terminated => (Renamed \/ Discarded \/ CleanedUp)

\* ------------------------------------------------- claims about download
\* The results that a failure of the transport or of the disk produces.
IOErrors == {"http", "preflight_http", "mkdir", "open", "stream", "write", "commit"}
\* download returned for item i, about a resolved destination, and neither
\* the transport nor the disk failed.
Settled(i) == t[i].known /\ t[i].res \in {"Ok", "Err"} /\ t[i].err \notin IOErrors
WasFile(i) == Before(i) # Absent /\ Before(i) # IsDir
\* Ok(outcome(L)), L being the Content-Length of the response.
Gives(i, outcome) ==
    /\ t[i].res = "Ok" /\ t[i].outcome = outcome
    /\ parse_u64(t[i].cl.text) = Some(t[i].len)
Written(i) == Now(i) = t[i].got
Untouched(i) == Now(i) = Before(i) /\ Len(t[i].got) = 0 /\ ~Opened(i)

\* C5 (overwrite matrix): with an existing regular file of size S at the
\* destination and Content-Length L, Never gives Ok(Existing), Fail gives
\* Err, Always gives Ok(Redownload(L)) with the body written, CheckLength
\* gives Ok(Existing) when S = L and Ok(Redownload(L)) with the body written
\* otherwise; with no entry at the destination every policy gives
\* Ok(Download(L)) with the body written.
C5_OverwriteMatrix ==
    \A i \in Items :
        Settled(i) =>
            /\ (WasFile(i) /\ items[i].overwrite = "Never") =>
                   t[i].res = "Ok" /\ t[i].outcome = "Existing" /\ Untouched(i)
            /\ (WasFile(i) /\ items[i].overwrite = "Fail") =>
                   t[i].res = "Err" /\ Untouched(i)
            /\ (WasFile(i) /\ items[i].overwrite = "Always") =>
                   Gives(i, "Redownload") /\ Written(i)
            /\ (WasFile(i) /\ items[i].overwrite = "CheckLength"
                    /\ Len(Before(i)) = t[i].len) =>
                   t[i].res = "Ok" /\ t[i].outcome = "Existing" /\ Untouched(i)
            /\ (WasFile(i) /\ items[i].overwrite = "CheckLength"
                    /\ Len(Before(i)) # t[i].len) =>
                   Gives(i, "Redownload") /\ Written(i)
            /\ Before(i) = Absent => Gives(i, "Download") /\ Written(i)
C5_Witness ==
    \E i \in Items :
        /\ Settled(i) /\ WasFile(i) /\ items[i].overwrite = "CheckLength"
        /\ Len(Before(i)) # t[i].len /\ t[i].outcome = "Redownload"
        /\ Len(t[i].got) = t[i].len /\ Written(i)

\* The Content-Length of the first response was there and parsed.
LengthParsed(i) == t[i].cl.present /\ parse_u64(t[i].cl.text).some
\* The response carried a Content-Disposition header that parses as an
\* attachment with a file name.
HeaderNamed(i) ==
    t[i].cd.present /\ t[i].cd.utf8 /\ filename_from_disposition(t[i].cd).tag = "Ok"
HeaderName(i) == filename_from_disposition(t[i].cd).v
UsesHeader(i) == bool(items[i].filename_use_content_disposition) /\ HeaderNamed(i)

\* C6 (file name precedence): when the content-disposition preference is
\* Require or Prefer and the header parses as an attachment with a name, the
\* destination is the target joined with that name, whatever the explicit
\* file name and the final-URL preference are; the destination is the
\* target joined with the explicit name only when the header gave no name.
C6_FilenamePrecedence ==
    \A i \in Items :
        (t[i].answered /\ LengthParsed(i)) =>
            /\ UsesHeader(i) =>
                   t[i].known /\ t[i].dest = join(items[i].target, HeaderName(i))
            /\ (t[i].known /\ items[i].filename.some
                   /\ t[i].dest = join(items[i].target, items[i].filename.v)) =>
                   ~UsesHeader(i)
C6_Witness ==
    \E i \in Items :
        /\ items[i].filename_use_content_disposition = "Prefer"
        /\ items[i].filename_use_final_url = "Require"
        /\ items[i].filename.some
        /\ t[i].answered /\ LengthParsed(i) /\ HeaderNamed(i)
        /\ Star \in DOMAIN t[i].cd.params
        /\ t[i].res = "Ok" /\ t[i].outcome = "Download"
        /\ Now(i) = t[i].got /\ t[i].dest = join(Target, <<"h">>)

\* C7 (Prefer falls through): with the content-disposition preference
\* Prefer, the final-URL preference Reject and no Content-Disposition
\* header, resolution does not fail: the destination is the target joined
\* with the explicit file name, or the target itself when none is set.
C7_PreferFallsThrough ==
    \A i \in Items :
        (/\ items[i].filename_use_content_disposition = "Prefer"
         /\ items[i].filename_use_final_url = "Reject"
         /\ t[i].answered /\ LengthParsed(i) /\ ~t[i].cd.present) =>
            t[i].known /\ t[i].dest = destination(items[i], items[i].filename)

\* The first response is one of the metadata errors: no parseable
\* Content-Length; no header under Require; a header that is consulted and
\* does not parse as an attachment with a name; a file name that is
\* required (expect_filename) and that neither the header nor the request
\* provides.
MetadataError(i) ==
    /\ t[i].answered
    /\ \/ ~LengthParsed(i)
       \/ strict(items[i].filename_use_content_disposition) /\ ~t[i].cd.present
       \/ bool(items[i].filename_use_content_disposition)
             /\ t[i].cd.present /\ ~HeaderNamed(i)
       \/ expect_filename(items[i]) /\ ~items[i].filename.some /\ ~UsesHeader(i)

\* C8 (metadata errors never write): on a metadata error download returns
\* Err, and it has created no directory and no temp file, has left the
\* destination as it was and has sent no second request.
C8_MetadataErrorsNeverWrite ==
    \A i \in Items :
        MetadataError(i) =>
            /\ t[i].res = "Err"
            /\ fs = fs0 /\ ~Opened(i) /\ Len(t[i].got) = 0
            /\ Len(t[i].reqs) = 1

\* C9 (the final-URL source fails explicitly): when the final-URL
\* preference is Require or Prefer, resolution ends in the failure
\* "unimplemented" of the item, which download returns as an Err that the
\* task reports; no name of another source is used, and run does not fail.
C9_FinalUrlFailsExplicitly ==
    /\ run # "Err"
    /\ \A i \in Items :
           (bool(items[i].filename_use_final_url) /\ t[i].answered /\ LengthParsed(i)) =>
               t[i].res = "Err" /\ t[i].err = "unimplemented" /\ ~t[i].known

\* ----------------------------------------------- claims about Operation
\* The items whose task holds a permit: acquired and not yet released.
Holders == { i \in Items : t[i].pc \notin {"Queued", "Done", "Panicked"} }

\* C10 (bounded concurrency): at most capacity items hold a permit, the
\* free permits being the capacity less the holders; a step frees at most
\* one permit, and lets at most one item in, and only when a permit is free.
C10_BoundedConcurrency ==
    /\ [](Cardinality(Holders) <= capacity
            /\ permits = capacity - Cardinality(Holders))
    /\ [][/\ permits' <= permits + 1
          /\ Cardinality(Holders') <= Cardinality(Holders) + 1
          /\ Cardinality(Holders') > Cardinality(Holders) => permits > 0]_vars
C10_Witness ==
    /\ N >= capacity /\ permits = 0 /\ Cardinality(Holders) = capacity
    /\ \E i \in Items : t[i].pc = "Done"
    /\ \E j \in Items : t[j].pc = "Queued"

\* Some item's task panicked.
SomePanicked == \E i \in Items : t[i].pc = "Panicked"
\* Item i reached a terminal state, finished its cooldown and gave its
\* permit back.
Finished(i) == t[i].pc = "Done" /\ t[i].res \in {"Ok", "Err"}

\* C11 (failure isolation): as long as no task panics, an item fails only
\* by a failure of its own transport or I/O, whatever became of the other
\* items; run does not return Err, and when it returns Ok every item has
\* been started and has run to its terminal state.
C11_FailureIsolation ==
    ~SomePanicked =>
        /\ run # "Err"
        /\ \A j \in Items : t[j].res = "Err" => t[j].err \in IOErrors
        /\ run = "Ok" => \A j \in Items : Finished(j)
C11_Witness ==
    /\ run = "Ok"
    /\ \E i \in Items :
           /\ t[i].res = "Err" /\ t[i].err = "preflight_http"
           /\ \A j \in Items \ {i} :
                  t[j].res = "Ok" /\ t[j].outcome = "Download" /\ Now(j) = t[j].got

\* run returned, with either result.
RunReturned == run \in {"Ok", "Err"}
\* The items whose task left download: by its return, or by a panic.
LeftRunning == { i \in Items : t[i].pc \in {"Cooldown", "Done", "Panicked"} }

\* C12 (join errors are treated like download failures): an item whose task
\* panicked has its error line and its increment of the aggregate counter,
\* as a failed download has, and run does not return before every task has
\* ended.
C12_JoinErrorsReported ==
    /\ \A i \in Items : t[i].pc = "Panicked" => errlines[i] = 1
    /\ totalprogress.pos = Cardinality(LeftRunning)
    /\ RunReturned => \A j \in Items : t[j].pc \in {"Done", "Panicked"}

\* C13 (run returns only at quiescence): when run has returned, every item
\* is Succeeded or Failed, is past its cooldown and has given its permit
\* back.
C13_ReturnsAtQuiescence ==
    RunReturned => (\A i \in Items : Finished(i)) /\ permits = capacity

\* The items that reached a terminal state: download returned Ok or Err.
Terminal == { i \in Items : t[i].res \in {"Ok", "Err"} }

\* C14 (aggregate counter): the counter is the number of items that
\* reached a terminal state, never more than N, and N when run returns.
C14_AggregateCounter ==
    /\ totalprogress.len = N
    /\ totalprogress.pos <= N
    /\ totalprogress.pos = Cardinality(Terminal)
    /\ RunReturned => totalprogress.pos = N

\* The destination of item i held a regular file and the policy keeps it:
\* Never, Fail, or CheckLength with the size equal to the Content-Length.
SkipCase(i) ==
    /\ t[i].known /\ WasFile(i)
    /\ \/ items[i].overwrite \in {"Never", "Fail"}
       \/ items[i].overwrite = "CheckLength" /\ Len(Before(i)) = t[i].len

\* C15 (skip paths touch nothing further): in a skip case download has
\* returned straight from the first response's headers: one request was
\* sent, no chunk was read, no directory and no temp file were created, no
\* AtomicFile was opened and the destination holds the bytes it held.
C15_SkipPathsTouchNothing ==
    \A i \in Items :
        SkipCase(i) =>
            /\ t[i].pc \in {"Cooldown", "Done"}
            /\ Len(t[i].reqs) = 1
            /\ Len(t[i].got) = 0 /\ t[i].pos = 0
            /\ fs = fs0 /\ cleanups = {}
            /\ ~Opened(i)
            /\ Now(i) = Before(i) /\ Now(i) = t[i].existed
C15_Witness ==
    \E i \in Items :
        /\ SkipCase(i) /\ items[i].overwrite = "CheckLength"
        /\ t[i].reqs = <<"HEAD">>
        /\ t[i].res = "Ok" /\ t[i].outcome = "Existing" /\ t[i].pc = "Done"
        /\ Len(Now(i)) = MaxLen

\* The configurations the spec names for a preflight: the flag, and a file
\* name to derive from the response or a length to compare.
NeedsPreflight(c) ==
    /\ c.preflight_head
    /\ \/ c.filename_use_content_disposition \in {"Require", "Prefer"}
       \/ c.filename_use_final_url \in {"Require", "Prefer"}
       \/ c.overwrite = "CheckLength"
\* download decided to write: the destination was absent (Download) or
\* held a regular file that the policy replaces (Redownload).
BodyNeeded(i) == t[i].known /\ t[i].existed # IsDir /\ ~SkipCase(i)
Gets(i) == { k \in 1..Len(t[i].reqs) : t[i].reqs[k] = "GET" }

\* C16 (preflight decision): the first request is a HEAD exactly in the
\* configurations NeedsPreflight names and a GET otherwise; no HEAD is sent
\* after the first request; at most one GET is sent; a GET follows a HEAD
\* only when a body is needed: the outcome is Download or Redownload.
C16_PreflightDecision ==
    \A i \in Items :
        Len(t[i].reqs) > 0 =>
            /\ (t[i].reqs[1] = "HEAD") <=> NeedsPreflight(items[i])
            /\ \A k \in 2..Len(t[i].reqs) : t[i].reqs[k] = "GET"
            /\ Cardinality(Gets(i)) <= 1
            /\ t[i].reqs = <<"HEAD", "GET">> =>
                   /\ BodyNeeded(i)
                   /\ t[i].res = "Ok" => t[i].outcome \in {"Download", "Redownload"}
C16_Witness ==
    \E i \in Items :
        /\ t[i].reqs = <<"HEAD", "GET">>
        /\ items[i].overwrite = "CheckLength"
        /\ t[i].res = "Ok" /\ t[i].outcome = "Redownload" /\ Now(i) = t[i].got

\* Item i's task is inside download; its permit went back.
Running(i) ==
    t[i].pc \in {"Response1", "Mkdir", "Response2", "Open", "Stream", "Sync", "Rename"}
Released(i) == t[i].pc \in {"Done", "Panicked"}

\* C17 (permit release ordering): an item holds its permit from the
\* acquire until its release, and the release comes after download reached
\* its outcome, the outcome was reported and counted, and the cooldown was
\* over; nothing has been requested before the task started; an item in
\* its cooldown does not keep a running item from its next step.
C17_PermitReleaseOrdering ==
    /\ permits = capacity - Cardinality(Holders)
    /\ \A i \in Items :
           /\ t[i].pc \in {"Queued", "Permitted", "Spawned"} => Len(t[i].reqs) = 0
           /\ t[i].pc = "Cooldown" => i \in Terminal /\ i \in Holders
           /\ Released(i) =>
                  /\ i \in Terminal
                  /\ t[i].res = "Err" => errlines[i] = 1
                  /\ totalprogress.pos >= Cardinality({j \in Items : Released(j)})
    /\ \A i, j \in Items :
           (t[i].pc = "Cooldown" /\ Running(j)) => ENABLED TaskStep(j)

\* What path p holds after a crash: of a file, the bytes that reached
\* stable storage.
CrashRead(p) == ReadPath(fs, durable, p)

\* C18 (durable before visible): whatever file is at the target path, all
\* its data is on stable storage, so that after a crash at any point the
\* target holds what a reader saw there before the crash: the previous
\* content, nothing, or the complete new content.
C18_DurableBeforeVisible ==
    \A i \in Items :
        Opened(i) => CrashRead(af[i].target_path) = ReadPath(fs, data, af[i].target_path)

\* C19 (every terminal transition is shown): an item that reached a
\* terminal state has its indicator finalized, in the success style after
\* Ok and in the failure style after Err, and after Err its error line was
\* printed; it has no spinner that still ticks.
C19_TerminalTransitionsShown ==
    \A i \in Terminal :
        /\ t[i].res = "Ok" => t[i].bar = "success"
        /\ t[i].res = "Err" => t[i].bar = "failure" /\ errlines[i] = 1
        /\ t[i].bar # "spinner"

\* No request asks for the final-URL source: no download panics.
EveryDownloadReturns == \A i \in Items : ~bool(items[i].filename_use_final_url)
\* Items wait, and no permit is held or free: nothing can let them in.
Stuck == (\E i \in Items : t[i].pc = "Queued") /\ Holders = {} /\ permits = 0

\* C20 (liveness of run): with a capacity of at least 1 and downloads that
\* all return, under fair scheduling every item is started and reaches a
\* terminal state and run returns; the free permits grow only by a holder's
\* release; no state has waiting items while no permit is held or free.
C20_RunLiveness ==
    /\ (capacity >= 1 /\ EveryDownloadReturns) =>
           <>(run = "Ok" /\ \A i \in Items : Finished(i))
    /\ [][permits' > permits => \E i \in Holders : i \notin Holders']_vars
    /\ []~Stuck
C20_Witness ==
    /\ EveryDownloadReturns /\ capacity < N
    /\ run = "Ok" /\ \A i \in Items : Finished(i)
    /\ \E i \in Items : t[i].res = "Err"
    /\ \E i \in Items : t[i].res = "Ok"

\* ---------------------------------------------- claims about the temp path
Tmp == <<".", "t", "m", "p">>
\* name is orig, then ".", then SuffixLen random characters, then ".tmp".
SpecShape(name, orig) ==
    /\ Len(name) = Len(orig) + 1 + SuffixLen + Len(Tmp)
    /\ SubSeq(name, 1, Len(orig)) = orig
    /\ name[Len(orig) + 1] = "."
    /\ SubSeq(name, Len(orig) + 2, Len(orig) + 1 + SuffixLen) \in Suffixes
    /\ SubSeq(name, Len(name) - Len(Tmp) + 1, Len(name)) = Tmp

\* C21 (temp path shape): the temp path of an opened AtomicFile is in the
\* directory of the target, is not the target, and its file name is the
\* target's file name followed by ".", SuffixLen random characters and
\* ".tmp".
C21_TempPathShape ==
    \A i \in Items :
        Opened(i) =>
            /\ parent(af[i].temp_path) = parent(af[i].target_path)
            /\ af[i].temp_path # af[i].target_path
            /\ SpecShape(file_name(af[i].temp_path), file_name(af[i].target_path))

\* C22 (the reported length matches what was written): when download
\* returned Ok(Download(n)) or Ok(Redownload(n)), the destination holds
\* exactly the bytes the GET streamed, n of them, and the last progress
\* callback reported n bytes.
C22_ReportedLengthIsWritten ==
    \A i \in Items :
        (t[i].res = "Ok" /\ t[i].outcome \in {"Download", "Redownload"}) =>
            /\ Now(i) = t[i].got
            /\ Len(Now(i)) = t[i].len
            /\ t[i].pos = t[i].len

\* Item i completes its commit in this step: its rename takes place.
Publishes(i) == t[i].pc = "Rename" /\ t'[i].res = "Ok"

\* C23 (Never and Fail protect an existing file under concurrency): in
\* every interleaving of items that run concurrently to one destination, an
\* item of the policy Never or Fail renames its temp file to the
\* destination only when nothing exists there at that moment; it never
\* replaces a file that is present.
C23_NeverFailProtect ==
    [][\A i \in Items :
           (items[i].overwrite \in {"Never", "Fail"} /\ Publishes(i)) =>
               ~exists(fs, af[i].target_path)]_vars

\* A commit of the object has returned success.
CommitReturnedOk == \E k \in Commits : calls[k].res = "Ok"

\* C24 (committed content is frozen): once commit has returned success, no
\* later call on the object (write_all, commit, discard) and not its drop
\* changes whether a file is at the target path or what a reader reads
\* there.
C24_CommittedContentFrozen ==
    [][CommitReturnedOk => ReadPath(fs', data', Dest) = ReadPath(fs, data, Dest)]_vars

=============================================================================
